---- MODULE Spec2Model ----
(***************************************************************************)
(* zpr: pushes the tagged commits of the active branch as one branch per   *)
(* topic.  The model covers zpr/commit.py (annotation parsing, message     *)
(* cleaning, commit equivalence, cherry-pick), zpr/pr.py (the sync planner *)
(* __check_needs_push and the branch builder push) and zpr/__main__.py     *)
(* (PRManager.do_run).                                                     *)
(*                                                                         *)
(* Data representation                                                     *)
(*  - a commit message is a sequence of lines; a line is a tuple of        *)
(*    strings: <<"text", s>>, <<"blank">>, <<"tag", X>> for a line         *)
(*    "topic#X", <<"deps", X, ...>> for "topic-deps: topic#X, ...".        *)
(*  - a git commit object is a non-empty sequence of commit data, newest   *)
(*    first: its head is the commit itself, its tail the first-parent      *)
(*    ancestry (empty for a root commit).  A branch is the commit at its   *)
(*    tip.                                                                 *)
(*  - the blob of a file at a commit is the sequence of revisions the      *)
(*    ancestry applied to the file, so that two blobs are equal exactly    *)
(*    when the same changes were applied in the same order.                *)
(*                                                                         *)
(* Call binding: do_run constructs PullRequestNode(tag=...) and calls      *)
(* pr.push(repo=..., upstream_head=..., remote=...) (__main__.py:79, 108), *)
(* the parameter lists of the earlier revision kept in src/zpr.py:66, 84;  *)
(* pr.py:12, 31 take the repository at construction instead.  The model    *)
(* binds each call to the body in pr.py with the manager's repository.     *)
(***************************************************************************)
EXTENDS Integers, Sequences, FiniteSets, TLC

VARIABLES
    history,     \* commit data of the active branch above upstream main, newest first
    dry_run,     \* --dry-run of the current invocation
    run,         \* number of the current invocation of main()
    pc,          \* position of the current invocation
    prs,         \* do_run's dict prs, in insertion order: sequence of PullRequestNode
    it_used,     \* size of prs recorded by the iterator of the filter loop
    idx,         \* position of the running loop in prs
    remote,      \* the remote returned by __resolve_remote (None: no remote)
    repo,        \* the repository: local branches, push remote's branches, checked-out branch
    ret,         \* how do_run was left: the value returned, or the exception raised
    log,         \* git commands that changed the repository during this invocation
    printed,     \* tags whose plan block was printed in this invocation
    decision,    \* planner decision per tag in this invocation
    prev_exit,   \* how the previous invocation ended: the path it took and its exit value
    prev_built,  \* tags whose branch the previous invocation rebuilt from all members
    arg,         \* input of the function under check (function-level specifications)
    result       \* its output

vars == <<history, dry_run, run, pc, prs, it_used, idx, remote, repo, ret, log,
          printed, decision, prev_built, prev_exit, arg, result>>

runVars == <<history, dry_run, run, prs, it_used, idx, remote, repo, ret, log,
             printed, decision, prev_built, prev_exit>>

----------------------------------------------------------------------------
(* Bounds *)

MaxCommits == 2   \* commits on the active branch above upstream main
MaxRuns == 2      \* consecutive invocations of main()
MaxLines == 3     \* lines of a commit message (SpecParse)
MaxFiles == 3     \* files a diff touches (SpecEq)
MaxMembers == 2   \* members of a topic and commits of its existing branch (SpecPlan)
MaxScan == 3      \* commits of the scanned branch (SpecGroup)

None == "None"

\* how do_run was left: by return of a value, or by an exception
Running == [exc |-> "running", value |-> 0]
Returned(value) == [exc |-> "none", value |-> value]
Raised(exc) == [exc |-> exc, value |-> 0]
NoBranch == <<>>
Tags == {"A", "B"}

Min(S) == CHOOSE x \in S : \A y \in S : x <= y

Reverse(s) == [i \in 1..Len(s) |-> s[Len(s) + 1 - i]]

SeqsUpTo(S, n) == UNION {[1..k -> S] : k \in 0..n}

\* how an invocation of main() ended: the path do_run took and the value it returned
Exit(cause, value) == [cause |-> cause, value |-> value]
NoExit == Exit("none", 0)

----------------------------------------------------------------------------
(* zpr/commit.py: annotation parsing *)

Blank == <<"blank">>

\* kPrMatcher: a line that is exactly topic#<token>
kPrMatcher(line) == line[1] = "tag"

\* kDepsMatcher: a line topic-deps: topic#<token>, ...
kDepsMatcher(line) == line[1] = "deps"

\* number of capture groups of kPrMatcher and of kDepsMatcher: match.groups() has one entry
kGroups == 1

\* position of the first of the matching positions hits, 0 when there is none
First(hits) == IF hits = {} THEN 0 ELSE Min(hits)

\* kPrMatcher.search(message): position of the first topic# line
SearchTag(message) == First({i \in 1..Len(message) : kPrMatcher(message[i])})

\* kDepsMatcher.search(message): position of the first topic-deps: line
SearchDeps(message) == First({i \in 1..Len(message) : kDepsMatcher(message[i])})

get_tag(message) ==
    LET m == SearchTag(message)
    IN IF m = 0 THEN None
       ELSE IF kGroups # 1 THEN "AssertionError"
       ELSE message[m][2]

\* CommitNode.__init__ / __parse_commit_message: tag and dependencies of a message
parse_commit_message(message) ==
    LET tag == get_tag(message)
        m == SearchDeps(message)
        items == Tail(message[m])
    IN IF tag = None \/ m = 0 THEN [tag |-> tag, dependencies |-> <<>>]
       ELSE IF kGroups # 1 THEN [tag |-> "AssertionError", dependencies |-> <<>>]
       ELSE [tag |-> tag,
             dependencies |-> [i \in 1..Len(items) |-> get_tag(<< <<"tag", items[i]>> >>)]]

RECURSIVE CollapseBlank(_)
\* re.sub(r'(\n{3,})', "\n\n"): a run of two or more empty lines becomes one
CollapseBlank(lines) ==
    IF Len(lines) < 2 THEN lines
    ELSE IF lines[1] = Blank /\ lines[2] = Blank THEN CollapseBlank(Tail(lines))
    ELSE <<lines[1]>> \o CollapseBlank(Tail(lines))

RECURSIVE LStrip(_)
LStrip(lines) ==
    IF lines # <<>> /\ lines[1] = Blank THEN LStrip(Tail(lines)) ELSE lines

\* str.strip()
Strip(lines) == Reverse(LStrip(Reverse(LStrip(lines))))

cleanup_commit_message(message) ==
    Strip(CollapseBlank([i \in 1..Len(message) |->
        IF kPrMatcher(message[i]) \/ kDepsMatcher(message[i]) THEN Blank
        ELSE message[i]]))

----------------------------------------------------------------------------
(* SpecParse: CommitNode(commit) applied to every message of up to MaxLines lines *)

Lines == {<<"text", "t1">>, Blank, <<"tag", "A">>, <<"tag", "B">>, <<"deps", "B">>}

Idle ==
    /\ history = <<>> /\ dry_run = FALSE /\ run = 0 /\ prs = <<>> /\ it_used = 0
    /\ idx = 0 /\ remote = None /\ repo = <<>> /\ ret = Running /\ log = <<>>
    /\ printed = {} /\ decision = <<>> /\ prev_built = {} /\ prev_exit = NoExit

InitParse ==
    /\ Idle
    /\ pc = "parse"
    /\ arg \in SeqsUpTo(Lines, MaxLines)
    /\ result = None

\* CommitNode.__init__
CommitNode_init ==
    /\ pc = "parse"
    /\ result' = parse_commit_message(arg)
    /\ pc' = "parsed"
    /\ UNCHANGED <<runVars, arg>>

SpecParse == InitParse /\ [][CommitNode_init]_vars

TagLines(message) == {i \in 1..Len(message) : kPrMatcher(message[i])}

\* C5: a message with two or more topic# lines is rejected with a classification
\* error: no tag is returned for it.
C5_AmbiguousTagRejected ==
    (pc = "parsed" /\ Cardinality(TagLines(arg)) >= 2) => result.tag = "AssertionError"

----------------------------------------------------------------------------
(* Git objects *)

\* commit data: the author's message, the files the commit changes, and the
\* revision of the content it writes to them
CommitData(message, touch, rev) == [message |-> message, touch |-> touch, rev |-> rev]

Text(s) == << <<"text", s>> >>

\* message of a local commit: title, then its topic# line and topic-deps: line
Message(title, tag, deps) ==
    Text(title)
    \o (IF tag = None THEN <<>> ELSE <<Blank, <<"tag", tag>>>>)
    \o (IF deps = <<>> THEN <<>> ELSE << <<"deps">> \o deps >>)

\* history of remotes/<zephyr>/main: the upstream head and its parent
UpstreamChain == <<CommitData(Text("up"), {}, 0), CommitData(Text("up"), {}, 0)>>

\* git.Commit.parents
parents(commit) == IF Tail(commit) = <<>> THEN <<>> ELSE <<Tail(commit)>>

RECURSIVE Blob(_, _)
\* blob of file f in the tree of a commit
Blob(commit, f) ==
    IF commit = <<>> THEN <<>>
    ELSE Blob(Tail(commit), f)
         \o (IF f \in Head(commit).touch THEN <<Head(commit).rev>> ELSE <<>>)

DiffLine(k, f, a, b, h) == [k |-> k, f |-> f, a |-> a, b |-> b, h |-> h]

\* the lines git diff prints for one file: header, index line with the blobs of
\* both sides, and the hunks
FileDiff(commit, f) ==
    << DiffLine("diff", f, <<>>, <<>>, 0),
       DiffLine("index", f, Blob(Tail(commit), f), Blob(commit, f), 0),
       DiffLine("hunk", f, <<>>, <<>>, Head(commit).rev) >>

RECURSIVE DiffFiles(_, _)
DiffFiles(commit, files) ==
    IF files = {} THEN <<>>
    ELSE FileDiff(commit, Min(files)) \o DiffFiles(commit, files \ {Min(files)})

\* repo.git.diff("<parent>..<commit>", "--no-color"): the files in path order
git_diff(commit) == DiffFiles(commit, Head(commit).touch)

\* the pattern index <blob>..<blob> <mode> of __eq__: it matches the index line of a
\* modified file when git abbreviates blob names to ten hex digits, the case modelled
IndexLine(line) == line.k = "index"

\* re.sub(pattern=index line, repl='', count=1): the first index line is removed
RemoveIndexLine(diff) ==
    LET m == First({i \in 1..Len(diff) : IndexLine(diff[i])})
    IN IF m = 0 THEN diff ELSE SubSeq(diff, 1, m - 1) \o SubSeq(diff, m + 1, Len(diff))

\* CommitNode.__eq__(other: git.Commit); io: the git diff command fails
CommitNode_eq(self, other, io) ==
    IF cleanup_commit_message(Head(self.commit).message)
           # cleanup_commit_message(Head(other).message) THEN "False"
    ELSE IF parents(self.commit) = <<>> THEN "IndexError"
    ELSE IF io THEN "GitCommandError"
    ELSE IF parents(other) = <<>> THEN "IndexError"
    ELSE IF RemoveIndexLine(git_diff(self.commit)) # RemoveIndexLine(git_diff(other))
         THEN "False"
    ELSE "True"

\* CommitNode(commit)
CommitNode(commit) ==
    LET a == parse_commit_message(Head(commit).message)
    IN [commit |-> commit, tag |-> a.tag, dependencies |-> a.dependencies]

----------------------------------------------------------------------------
(* SpecEq: CommitNode.__eq__ applied to pairs of commits on their own parents *)

FileSets == SUBSET (1..MaxFiles)

\* a commit on top of upstream main, with an optional earlier commit below it
OnUpstream(data, below) ==
    <<data>>
    \o (IF below = {} THEN <<>> ELSE <<CommitData(Text("below"), below, 1)>>)
    \o UpstreamChain

InitEq ==
    /\ Idle
    /\ pc = "eq"
    /\ \E t1 \in FileSets \ {{}}, b1 \in FileSets, title \in {"t1", "t2"},
          t2 \in FileSets \ {{}}, rev \in {1, 2}, b2 \in FileSets, root \in BOOLEAN :
          arg = [self |-> CommitNode(OnUpstream(
                              CommitData(Message("t1", "A", <<>>), t1, 1), b1)),
                 other |-> IF root THEN <<CommitData(Text(title), t2, rev)>>
                           ELSE OnUpstream(CommitData(Text(title), t2, rev), b2)]
    /\ result = None

\* pending_commit == head
Compare ==
    /\ pc = "eq"
    /\ result' = CommitNode_eq(arg.self, arg.other, FALSE)
    /\ pc' = "compared"
    /\ UNCHANGED <<runVars, arg>>

SpecEq == InitEq /\ [][Compare]_vars

\* the change a commit makes to each file, relative to its own parent
Changes(commit) == [f \in Head(commit).touch |-> Head(commit).rev]

SameMessageAndChanges ==
    /\ cleanup_commit_message(Head(arg.self.commit).message)
           = cleanup_commit_message(Head(arg.other).message)
    /\ Changes(arg.self.commit) = Changes(arg.other)
    /\ parents(arg.self.commit) # <<>> /\ parents(arg.other) # <<>>

\* C10: two commits with identical cleaned messages and identical per-file changes
\* relative to their own parents compare equivalent, whatever their index lines and
\* however many files they touch.
C10_SameChangesEquivalent ==
    (pc = "compared" /\ SameMessageAndChanges) => result = "True"

----------------------------------------------------------------------------
(* zpr/pr.py: PullRequestNode *)

Original == <<"original">>          \* the operator's branch, PRManager.original_branch
Detached == <<"upstream">>          \* HEAD detached at the upstream head
branch_name(tag) == <<"push-bot", tag>>

\* PullRequestNode(repo, tag)
PullRequestNode(tag) == [tag |-> tag, commits |-> <<>>]

\* mutant of add_commit: the commit replaces the members collected so far
add_commit_replaces(pr, commit) == [pr EXCEPT !.commits = <<commit>>]

\* self.commits.append(commit)
add_commit(pr, commit) == [pr EXCEPT !.commits = Append(@, commit)]

\* PullRequestNode.dependencies: union of the members' dependencies
dependencies(pr) ==
    UNION {{pr.commits[i].dependencies[j] : j \in 1..Len(pr.commits[i].dependencies)} :
           i \in 1..Len(pr.commits)}

\* faults of the git commands a push runs: none, the diff of the walk, the checkout
\* of the upstream head, the k-th cherry-pick, the push to the remote
Fault(at, k) == [at |-> at, k |-> k]
NoFault == Fault("none", 0)
Faults(pr) ==
    {NoFault, Fault("diff", 0), Fault("checkout", 0), Fault("push", 0)}
    \cup {Fault("cherry_pick", k) : k \in 1..Len(pr.commits)}

RECURSIVE Walk(_, _, _, _)
\* the loop of __check_needs_push from the i-th pending commit, head the branch
\* commit it is compared with; n counts the comparisons made
Walk(commits, head, i, io) ==
    IF i > Len(commits) THEN [res |-> "False", n |-> i - 1]
    ELSE LET eq == CommitNode_eq(commits[i], head, io)
         IN IF eq \notin {"True", "False"} THEN [res |-> eq, n |-> i]
            ELSE IF eq = "False" THEN [res |-> "True", n |-> i]
            ELSE IF parents(head) = <<>> THEN [res |-> "True", n |-> i]
            ELSE Walk(commits, parents(head)[1], i + 1, io)

\* PullRequestNode.__check_needs_push: res "True" (needs push), "False" (up to
\* date) or the exception raised; the repository after it; the commands it ran
check_needs_push(pr, r, io) ==
    IF r.branches[pr.tag] = NoBranch
    THEN [res |-> "True", n |-> 0, repo |-> r, log |-> <<>>]
    ELSE LET w == Walk(pr.commits, r.branches[pr.tag], 1, io)
         IN [res |-> w.res, n |-> w.n,
             repo |-> [r EXCEPT !.active = branch_name(pr.tag)],
             log |-> <<"checkout_branch">>]

\* mutant of cherry_pick: a failed cherry-pick is aborted and not raised
cherry_pick_swallows(self, head, conflict) ==
    IF conflict THEN [head |-> head, raised |-> FALSE, log |-> <<"cherry_pick_abort">>]
    ELSE [head |-> <<CommitData(cleanup_commit_message(Head(self.commit).message),
                                Head(self.commit).touch, Head(self.commit).rev)>> \o head,
          raised |-> FALSE, log |-> <<"cherry_pick">>]

\* CommitNode.cherry_pick onto the checked-out commit head
cherry_pick(self, head, conflict) ==
    IF conflict THEN [head |-> head, raised |-> TRUE, log |-> <<"cherry_pick_abort">>]
    ELSE [head |-> <<CommitData(cleanup_commit_message(Head(self.commit).message),
                                Head(self.commit).touch, Head(self.commit).rev)>> \o head,
          raised |-> FALSE, log |-> <<"cherry_pick">>]

\* mutant of reversed: the members are replayed in discovery order, newest first
reversed_skipped(commits) == commits

\* reversed(self.commits): the members oldest first
reversed(commits) == Reverse(commits)

RECURSIVE Replay(_, _, _, _)
\* for commit in reversed(self.commits): commit.cherry_pick(self.repo)
Replay(commits, head, i, fault) ==
    IF i > Len(commits) THEN [head |-> head, raised |-> FALSE, log |-> <<>>]
    ELSE LET c == cherry_pick(commits[i], head, fault = Fault("cherry_pick", i))
         IN IF c.raised THEN c
            ELSE LET rest == Replay(commits, c.head, i + 1, fault)
                 IN [rest EXCEPT !.log = c.log \o @]

PushResult(r, raised, ops, d, n) ==
    [repo |-> r, raised |-> raised, log |-> ops, decision |-> d, compared |-> n]

\* PullRequestNode.push(upstream_head, remote)
push(pr, r, upstream_head, rem, fault) ==
    LET plan == check_needs_push(pr, r, fault.at = "diff")
        tag == pr.tag
        built == Replay(reversed(pr.commits), upstream_head, 1, fault)
        r1 == [plan.repo EXCEPT !.active = branch_name(tag), !.branches[tag] = built.head]
        l1 == plan.log \o <<"checkout_upstream">>
              \o (IF r.branches[tag] # NoBranch THEN <<"branch_delete">> ELSE <<>>)
              \o <<"checkout_new">> \o built.log
    IN IF plan.res \notin {"True", "False"}
       THEN PushResult(plan.repo, TRUE, plan.log, "ERROR", plan.n)
       ELSE IF plan.res = "False"
       THEN PushResult(plan.repo, FALSE, plan.log, "UP_TO_DATE", plan.n)
       ELSE IF fault.at = "checkout"
       THEN PushResult(plan.repo, TRUE, plan.log, "NEEDS_PUSH", plan.n)
       ELSE IF built.raised THEN PushResult(r1, TRUE, l1, "NEEDS_PUSH", plan.n)
       ELSE IF rem = None THEN PushResult(r1, FALSE, l1, "NEEDS_PUSH", plan.n)
       ELSE IF fault.at = "push" THEN PushResult(r1, TRUE, l1 \o <<"push">>, "NEEDS_PUSH", plan.n)
       ELSE PushResult([r1 EXCEPT !.remotes[tag] = built.head], FALSE,
                       l1 \o <<"push">>, "NEEDS_PUSH", plan.n)

\* the commands of the Branch Builder
BuilderOps == {"checkout_upstream", "branch_delete", "checkout_new", "cherry_pick",
               "cherry_pick_abort", "push"}

----------------------------------------------------------------------------
(* zpr/__main__.py: PRManager.do_run *)

\* CommitList: the commits of the active branch, newest first, up to the first one
\* contained in remotes/<zephyr>/main
CommitList(above) ==
    LET branch == above \o UpstreamChain
    IN [i \in 1..Len(above) |-> CommitNode(SubSeq(branch, i, Len(branch)))]

\* position of the key tag in the dict, 0 when it is not a key
Find(dict, tag) ==
    LET at == {i \in 1..Len(dict) : dict[i].tag = tag}
    IN IF at = {} THEN 0 ELSE Min(at)

RECURSIVE Group(_, _)
\* the grouping loop of do_run over the commits left to scan
Group(commits, dict) ==
    IF commits = <<>> THEN dict
    ELSE LET commit == Head(commits)
             at == Find(dict, commit.tag)
         IN IF commit.tag = None THEN Group(Tail(commits), dict)
            ELSE IF at = 0
            THEN Group(Tail(commits),
                       Append(dict, add_commit(PullRequestNode(commit.tag), commit)))
            ELSE Group(Tail(commits), [dict EXCEPT ![at] = add_commit(@, commit)])

Remove(dict, i) == SubSeq(dict, 1, i - 1) \o SubSeq(dict, i + 1, Len(dict))

Logged(tag, ops) == [i \in 1..Len(ops) |-> <<tag, ops[i]>>]

NoDecision == [t \in Tags |-> "none"]

\* tags whose branch this invocation rebuilt from all members of the topic
BuiltNow ==
    {t \in Tags : \E i \in 1..Len(prs) :
        /\ prs[i].tag = t
        /\ Cardinality({j \in 1..Len(log) : log[j] = <<t, "cherry_pick">>})
               = Len(prs[i].commits)}

\* main() .. the grouping loop of do_run
Scan ==
    /\ pc = "start"
    /\ prs' = Group(CommitList(history), <<>>)
    /\ it_used' = Len(prs')
    /\ idx' = 1
    /\ pc' = "filter"
    /\ UNCHANGED <<history, dry_run, run, remote, repo, ret, log, printed, decision,
                   prev_built, prev_exit, arg, result>>

\* one step of: for pr in prs.values(): if pr.dependencies: prs.pop(pr.tag) ...
\* The iterator raises RuntimeError when the dict changed size since it was made.
Filter ==
    /\ pc = "filter"
    /\ IF Len(prs) # it_used
       THEN /\ pc' = "raised" /\ ret' = Raised("RuntimeError")
            /\ UNCHANGED <<prs, idx, printed>>
       ELSE IF idx > Len(prs)
       THEN /\ pc' = "viable"
            /\ UNCHANGED <<prs, idx, printed, ret>>
       ELSE IF dependencies(prs[idx]) # {}
       THEN /\ prs' = Remove(prs, idx)
            /\ idx' = idx + 1
            /\ UNCHANGED <<pc, printed, ret>>
       ELSE /\ printed' = printed \cup {prs[idx].tag}
            /\ idx' = idx + 1
            /\ UNCHANGED <<pc, prs, ret>>
    /\ UNCHANGED <<history, dry_run, run, it_used, remote, repo, log, decision,
                   prev_built, prev_exit, arg, result>>

\* mutant of Viable: --dry-run is not looked at
Viable_ignores_dry ==
    /\ pc = "viable"
    /\ IF prs = <<>>
       THEN pc' = "returned" /\ ret' = Returned(0)
       ELSE pc' = "confirm" /\ ret' = ret
    /\ UNCHANGED <<history, dry_run, run, prs, it_used, idx, remote, repo, log, printed,
                   decision, prev_built, prev_exit, arg, result>>

\* if not prs: return 0; if dry_run: return 0
Viable ==
    /\ pc = "viable"
    /\ IF prs = <<>> \/ dry_run
       THEN pc' = "returned" /\ ret' = Returned(0)
       ELSE pc' = "confirm" /\ ret' = ret
    /\ UNCHANGED <<history, dry_run, run, prs, it_used, idx, remote, repo, log, printed,
                   decision, prev_built, prev_exit, arg, result>>

\* the confirmation prompt and __resolve_remote
Confirm ==
    /\ pc = "confirm"
    /\ \E selection \in BOOLEAN, rem \in {None, "origin"} :
          IF ~selection
          THEN pc' = "returned" /\ ret' = Returned(-1) /\ UNCHANGED <<remote, idx>>
          ELSE pc' = "push" /\ remote' = rem /\ idx' = 1 /\ ret' = ret
    /\ UNCHANGED <<history, dry_run, run, prs, it_used, repo, log, printed, decision,
                   prev_built, prev_exit, arg, result>>

\* mutant of original_branch_checkout: the working tree stays where it is
original_branch_checkout_skipped(r) == r

\* self.original_branch.checkout()
original_branch_checkout(r) == [r EXCEPT !.active = Original]

\* one step of: for pr in prs.values(): try: pr.push(...) except Exception: ...
\* and, when the loop is exhausted, the checkout and return 0 after it
PushLoop ==
    /\ pc = "push"
    /\ \E restore_fails \in BOOLEAN :
       IF idx > Len(prs)
       THEN /\ IF restore_fails
               THEN pc' = "raised" /\ ret' = Raised("GitCommandError") /\ repo' = repo
                    /\ log' = log
               ELSE pc' = "returned" /\ ret' = Returned(0)
                    /\ repo' = original_branch_checkout(repo)
                    /\ log' = Append(log, <<None, "checkout_original">>)
            /\ UNCHANGED <<idx, decision>>
       ELSE \E fault \in Faults(prs[idx]) :
            LET p == push(prs[idx], repo, UpstreamChain, remote, fault)
            IN /\ decision' = [decision EXCEPT ![prs[idx].tag] = p.decision]
               /\ IF ~p.raised
                  THEN /\ idx' = idx + 1
                       /\ repo' = p.repo
                       /\ log' = log \o Logged(prs[idx].tag, p.log)
                       /\ UNCHANGED <<pc, ret>>
                  ELSE /\ idx' = idx
                       /\ IF restore_fails
                          THEN pc' = "raised" /\ ret' = Raised("GitCommandError")
                               /\ repo' = p.repo
                               /\ log' = log \o Logged(prs[idx].tag, p.log)
                          ELSE pc' = "returned" /\ ret' = Returned(-1)
                               /\ repo' = original_branch_checkout(p.repo)
                               /\ log' = log \o Logged(prs[idx].tag, p.log)
                                         \o << <<None, "checkout_original">> >>
    /\ UNCHANGED <<history, dry_run, run, prs, it_used, remote, printed, prev_built, prev_exit,
                   arg, result>>

\* do_run returned from the confirmation prompt: the operator declined
Declined == pc = "returned" /\ ~dry_run /\ prs # <<>> /\ decision = NoDecision

\* do_run returned from the except handler of the push loop
Failed == pc = "returned" /\ decision # NoDecision /\ idx <= Len(prs)

\* the path on which the current invocation ended
ExitCause ==
    IF pc = "raised" THEN "raised"
    ELSE IF Declined THEN "declined"
    ELSE IF Failed THEN "failed"
    ELSE "done"

\* the operator invokes main() again on the same branch
NextRun ==
    /\ pc \in {"returned", "raised"}
    /\ run < MaxRuns
    /\ repo.active = Original
    /\ run' = run + 1
    /\ dry_run' \in BOOLEAN
    /\ prev_built' = BuiltNow
    /\ prev_exit' = Exit(ExitCause, ret.value)
    /\ pc' = "start"
    /\ prs' = <<>> /\ it_used' = 0 /\ idx' = 0 /\ remote' = None /\ ret' = Running
    /\ log' = <<>> /\ printed' = {} /\ decision' = NoDecision
    /\ UNCHANGED <<history, repo, arg, result>>

Shapes == {CommitData(Message("t1", a[1], a[2]), touch, 1) :
              a \in {<<None, <<>>>>, <<"A", <<>>>>, <<"A", <<"B">>>>, <<"B", <<>>>>},
              touch \in {{1}, {1, 2}}}

Init ==
    /\ history \in SeqsUpTo(Shapes, MaxCommits)
    /\ dry_run \in BOOLEAN
    /\ run = 1
    /\ pc = "start"
    /\ prs = <<>> /\ it_used = 0 /\ idx = 0 /\ remote = None /\ ret = Running
    /\ repo = [branches |-> [t \in Tags |-> NoBranch],
               remotes |-> [t \in Tags |-> NoBranch],
               active |-> Original]
    /\ log = <<>> /\ printed = {} /\ decision = NoDecision /\ prev_built = {} /\ prev_exit = NoExit
    /\ arg = None /\ result = None

Next == Scan \/ Filter \/ Viable \/ Confirm \/ PushLoop \/ NextRun

Spec == Init /\ [][Next]_vars

----------------------------------------------------------------------------
(* Claims checked under Spec *)

Ended == pc \in {"returned", "raised"}

\* the groups grouping produces for the scanned commits
Grouped == Group(CommitList(history), <<>>)

DependencyFree == {Grouped[i].tag : i \in {j \in 1..Len(Grouped) : dependencies(Grouped[j]) = {}}}

Entries(ops) == {ops[j] : j \in 1..Len(ops)}

\* C1: the groups that are printed and go on to be processed are exactly the
\* dependency-free groups, and the run is not stopped by the removal of a group.
C1_DependencyFreeGroupsProcessed ==
    Ended => (ret.exc # "RuntimeError" /\ printed = DependencyFree)

\* C2: a topic whose branch the previous invocation rebuilt from all its members is
\* not planned NEEDS_PUSH by the next invocation over the same commits: it is up to
\* date (or the walk ended in an error of the git command).
C2_SecondRunUpToDate ==
    \A t \in Tags :
        (t \in prev_built /\ decision[t] # "none") => decision[t] \in {"UP_TO_DATE", "ERROR"}

\* C6: when the walk of one topic ends in an error, the topics after it in the same
\* run are still planned.
C6_PlanningErrorKeptToTopic ==
    \A i \in 1..Len(prs) :
        (Ended /\ decision[prs[i].tag] = "ERROR")
            => \A j \in (i + 1)..Len(prs) : decision[prs[j].tag] # "none"

\* C7: whenever do_run returns after a topic was planned or pushed, the operator's
\* original branch is the one checked out.
C7_OriginalBranchRestored ==
    (pc = "returned" /\ \E t \in Tags : decision[t] # "none") => repo.active = Original

C7_Witness ==
    /\ pc = "returned" /\ ret = Returned(-1)
    /\ \E t \in Tags : <<t, "cherry_pick_abort">> \in Entries(log)
    /\ repo.active = Original

\* C8: a push of a topic's branch directly follows the successful cherry-pick of
\* every member onto the branch created in the same rebuild, no cherry-pick of the
\* topic failed in the run, and the remote branch holds all members.
C8_PushOnlyAfterFullReplay ==
    \A j \in 1..Len(log) :
        log[j][2] = "push" =>
            LET t == log[j][1]
                n == Len(prs[Find(prs, t)].commits)
            IN /\ j > n + 1
               /\ \A k \in 1..n : log[j - k] = <<t, "cherry_pick">>
               /\ log[j - n - 1] = <<t, "checkout_new">>
               /\ <<t, "cherry_pick_abort">> \notin Entries(log)
               /\ repo.remotes[t] # NoBranch
                      => Len(repo.remotes[t]) = n + Len(UpstreamChain)

C8_Witness ==
    \E t \in Tags :
        /\ <<t, "push">> \in Entries(log)
        /\ Find(prs, t) # 0 /\ Len(prs[Find(prs, t)].commits) = 2
        /\ repo.remotes[t] # NoBranch

\* C9: a dry run runs no git command that changes the repository.
C9_DryRunChangesNothing == dry_run => log = <<>>

C9_Witness ==
    /\ dry_run /\ pc = "returned" /\ prs # <<>>
    /\ \E i \in 1..Len(prs) : repo.branches[prs[i].tag] # NoBranch

----------------------------------------------------------------------------
(* SpecPlan: PullRequestNode.push applied to one topic and every existing branch *)

\* members of topic A, newest first
PlanCommits == {CommitData(Message(title, "A", <<>>), touch, 1) :
                   title \in {"t1", "t2"}, touch \in {{1}, {1, 2}}}

\* commits of an existing branch push-bot/A
BranchCommits == {CommitData(Text(title), touch, 1) :
                     title \in {"t1", "t2"}, touch \in {{1}, {1, 2}}}

\* an untagged commit of the active branch below the members, or none
Below == {<<>>, <<CommitData(Text("below"), {2}, 1)>>}

InitPlan ==
    /\ Idle
    /\ pc = "plan"
    /\ \E members \in SeqsUpTo(PlanCommits, MaxMembers) \ {<<>>}, below \in Below,
          above \in SeqsUpTo(BranchCommits, MaxMembers),
          base \in {UpstreamChain, <<>>} :
          arg = [pr |-> Group(CommitList(members \o below), <<>>)[1],
                 repo |-> [branches |-> [t \in Tags |-> IF t = "A" THEN above \o base
                                                        ELSE NoBranch],
                           remotes |-> [t \in Tags |-> NoBranch],
                           active |-> Original]]
    /\ result = None

\* pr.push(upstream_head, remote)
PushCall ==
    /\ pc = "plan"
    /\ \E rem \in {None, "origin"}, fault \in Faults(arg.pr) :
          result' = [out |-> push(arg.pr, arg.repo, UpstreamChain, rem, fault),
                     fault |-> fault]
    /\ pc' = "pushed"
    /\ UNCHANGED <<runVars, arg>>

SpecPlan == InitPlan /\ [][PushCall]_vars

\* the existing branch of the topic, and its i-th commit from the tip
Existing == arg.repo.branches[arg.pr.tag]
BranchAt(i) == SubSeq(Existing, i, Len(Existing))

\* equivalence of two commits: identical cleaned messages and identical changes
\* relative to their own parents; a commit without a parent is equivalent to none
Equivalent(commit, other) ==
    /\ cleanup_commit_message(Head(commit).message)
           = cleanup_commit_message(Head(other).message)
    /\ parents(commit) # <<>> /\ parents(other) # <<>>
    /\ Changes(commit) = Changes(other)

\* the i-th member, newest first, is equivalent to the i-th branch commit from the tip
EquivalentAt(i) ==
    i <= Len(Existing) /\ Equivalent(arg.pr.commits[i].commit, BranchAt(i))

GitAnswers == result.fault.at # "diff"

\* C3: when the branch exists and every member, newest first, is equivalent to the
\* branch commit at the same distance from the tip, the decision is UP_TO_DATE and
\* no command of the Branch Builder runs.
C3_AllEquivalentUpToDate ==
    (/\ pc = "pushed" /\ GitAnswers
     /\ Existing # NoBranch
     /\ \A i \in 1..Len(arg.pr.commits) : EquivalentAt(i))
        => /\ result.out.decision = "UP_TO_DATE"
           /\ Entries(result.out.log) \cap BuilderOps = {}

\* C4: when the branch exists and the walk meets a first position whose member is
\* not equivalent to the branch commit, the decision is NEEDS_PUSH and no older
\* position is compared.
C4_FirstMismatchNeedsPush ==
    \A i \in 1..Len(arg.pr.commits) :
        (/\ pc = "pushed" /\ GitAnswers
         /\ i <= Len(Existing)
         /\ \A k \in 1..(i - 1) : EquivalentAt(k)
         /\ ~EquivalentAt(i))
            => /\ result.out.decision = "NEEDS_PUSH"
               /\ result.out.compared <= i

----------------------------------------------------------------------------
(* SpecGroup: the scan and the grouping loop of do_run applied to every branch of *)
(* up to MaxScan commits above upstream                                           *)

\* commits of the scanned branch: untagged, tagged A, a or B, with or without a
\* topic-deps: line
ScanShapes == {CommitData(Message("t1", a[1], a[2]), {1}, 1) :
                  a \in {<<None, <<>>>>, <<"A", <<>>>>, <<"a", <<>>>>, <<"B", <<>>>>,
                         <<"A", <<"B">>>>, <<"a", <<"B">>>>, <<"B", <<"A", "a">>>>}}

InitGroup ==
    /\ Idle
    /\ pc = "group"
    /\ arg \in SeqsUpTo(ScanShapes, MaxScan)
    /\ result = None

\* commits = CommitList(...).commits and the loop "for commit in commits"
GroupCall ==
    /\ pc = "group"
    /\ result' = Group(CommitList(arg), <<>>)
    /\ pc' = "grouped"
    /\ UNCHANGED <<runVars, arg>>

SpecGroup == InitGroup /\ [][GroupCall]_vars

\* the scanned commits, newest first
Scanned == CommitList(arg)

\* the positions of the scanned commits that are members of the g-th group
MembersOf(g) ==
    {i \in 1..Len(Scanned) :
        \E k \in 1..Len(result[g].commits) : result[g].commits[k] = Scanned[i]}

\* a tag with its letters in lower case
Lower(tag) == IF tag = "A" THEN "a" ELSE IF tag = "B" THEN "b" ELSE tag

\* C11: scanned commits whose tags differ only in letter case are members of the
\* same group, so no two groups have tags that are equal up to case.
C11_TagsGroupedIgnoringCase ==
    pc = "grouped" =>
        \A g, h \in 1..Len(result) :
            Lower(result[g].tag) = Lower(result[h].tag) => g = h

----------------------------------------------------------------------------
(* Claims checked under SpecPlan: the rebuilt branch *)

\* what a cherry-pick of the member leaves on the branch: its changes under its
\* cleaned message
Picked(member) ==
    CommitData(cleanup_commit_message(Head(member.commit).message),
               Head(member.commit).touch, Head(member.commit).rev)

Rebuilt == pc = "pushed" /\ result.out.decision = "NEEDS_PUSH" /\ ~result.out.raised

\* C12: after a rebuild the branch holds the members in their ancestry order on top
\* of the upstream head: the i-th newest member is the i-th commit from the tip, so
\* every member was cherry-picked before the members that descend from it.
C12_ReplayInAncestryOrder ==
    Rebuilt =>
        LET built == result.out.repo.branches[arg.pr.tag]
            n == Len(arg.pr.commits)
        IN /\ Len(built) = n + Len(UpstreamChain)
           /\ \A i \in 1..n : built[i] = Picked(arg.pr.commits[i])
           /\ SubSeq(built, n + 1, Len(built)) = UpstreamChain

C12_Witness ==
    /\ Rebuilt
    /\ Len(arg.pr.commits) = 2
    /\ Picked(arg.pr.commits[1]) # Picked(arg.pr.commits[2])
    /\ Existing # NoBranch

----------------------------------------------------------------------------
(* Claims checked under Spec: exit values, remote branches *)

\* C14: do_run returns zero when it succeeded or had nothing to do, a non-zero value
\* when the operator declined or a topic failed, and the value returned for a
\* declined prompt differs from the value returned for a failed topic.
C14_ExitValuesDistinguish ==
    pc = "returned" =>
        /\ ExitCause = "done" => ret.value = 0
        /\ ExitCause \in {"declined", "failed"} => ret.value # 0
        /\ (/\ ExitCause \in {"declined", "failed"}
            /\ prev_exit.cause \in {"declined", "failed"}
            /\ prev_exit.cause # ExitCause) => ret.value # prev_exit.value

\* C18: whenever a topic is decided UP_TO_DATE and its push is skipped, the branch of
\* the topic on the push remote holds the topic's current members, as the local
\* branch does; also when an earlier invocation rebuilt the branch without pushing.
C18_UpToDateMeansRemoteCurrent ==
    \A i \in 1..Len(prs) :
        decision[prs[i].tag] = "UP_TO_DATE" =>
            /\ repo.remotes[prs[i].tag] # NoBranch
            /\ repo.remotes[prs[i].tag] = repo.branches[prs[i].tag]

----------------------------------------------------------------------------
(* Claims checked under SpecPlan: the planner *)

\* the walk reaches position i: every newer position compared equivalent
Reached(i) == i <= Len(Existing) /\ \A k \in 1..(i - 1) : EquivalentAt(k)

\* C15: when the walk reaches a branch commit without a parent, the decision is
\* NEEDS_PUSH, also when its cleaned message equals the member's, and the walk
\* does not end in an error.
C15_RootCommitNeedsPush ==
    \A i \in 1..Len(arg.pr.commits) :
        (/\ pc = "pushed" /\ GitAnswers
         /\ Reached(i)
         /\ parents(BranchAt(i)) = <<>>)
            => result.out.decision = "NEEDS_PUSH"

\* C16: planning a topic runs no checkout, and when nothing is rebuilt the
\* repository (branches and checked-out branch) is as it was before.
C16_PlannerLeavesWorkingTree ==
    pc = "pushed" =>
        /\ "checkout_branch" \notin Entries(result.out.log)
        /\ result.out.decision # "NEEDS_PUSH" => result.out.repo = arg.repo

\* the commits of the existing branch above the upstream head, when it is based on it
AboveUpstream ==
    IF /\ Len(Existing) >= Len(UpstreamChain)
       /\ SubSeq(Existing, Len(Existing) - Len(UpstreamChain) + 1, Len(Existing))
              = UpstreamChain
    THEN Len(Existing) - Len(UpstreamChain)
    ELSE -1

\* C17: the decision is UP_TO_DATE only if the branch is based on the upstream head
\* and has as many commits above it as the topic has members; a branch with more
\* commits than members is not up to date.
C17_LongerBranchNeedsPush ==
    (pc = "pushed" /\ result.out.decision = "UP_TO_DATE")
        => AboveUpstream = Len(arg.pr.commits)

====
